---- MODULE Spec2Model ----
\* Verification model of two permutation primitives of Plonky3:
\*   koala-bear/src/poseidon2.rs  the shift-based diagonal diffusion permute_mut
\*   mds/src/coset_mds.rs         the Reed-Solomon (coset LDE) MDS permutation
\* TLC's integers are 32-bit, so field products are computed by double-and-add
\* and the u64 accumulators of permute_mut are kept as four 16-bit limbs.
EXTENDS Integers, Sequences, FiniteSets, TLC

VARIABLES
    width,      \* diffusion: N of the instantiation in use (16 or 24)
    state,      \* diffusion: the caller's state array (stored Montgomery values)
    old,        \* diffusion: the state array as it was before the last call
    accs,       \* diffusion: the accumulators the last call handed to monty_reduce
    calls,      \* number of permutation calls made so far
    n,          \* coset mds: the const generic N of the instance
    mds,        \* coset mds: the CosetMds instance, or how its construction ended
    values,     \* coset mds: the caller's array
    layers,     \* coset mds: per layer of the last call, the butterflies it applied
    ret,        \* coset mds: the array the last permute returned
    hist,       \* coset mds: kind, input and output of every finished call
    lin         \* linearity: the scalars, the two states, and the images

vars == <<width, state, old, accs, calls, n, mds, values, layers, ret, hist, lin>>

diagVars == <<width, state, old, accs>>
mdsVars == <<n, mds, values, layers, ret, hist>>

-----------------------------------------------------------------------------
\* Sequence helpers

Min(a, b) == IF a < b THEN a ELSE b

-----------------------------------------------------------------------------
\* Prime-field arithmetic on canonical residues in [0, p), p < 2^31. No
\* intermediate value reaches 2^31. The loops are written so that every value
\* is computed before the next step starts, which keeps the evaluation shallow.

AddP(p, a, b) == IF a >= p - b THEN a - (p - b) ELSE a + b

SubP(p, a, b) == IF a >= b THEN a - b ELSE a + (p - b)

NegP(p, a) == SubP(p, 0, a)

DblP(p, a) == AddP(p, a, a)

\* a * 2^k, by k doublings
RECURSIVE ShlP(_, _, _)
ShlP(p, a, k) == IF a = 0 \/ k = 0 THEN a ELSE ShlP(p, DblP(p, a), k - 1)

\* t extended to <<a, 2a, 4a, ..., 2^k a>>
RECURSIVE Doublings(_, _, _)
Doublings(p, t, k) ==
    IF Len(t) > k THEN t
    ELSE Doublings(p, Append(t, DblP(p, t[Len(t)])), k)

\* acc + a * c for c < 2^Len(t), from the doublings t of a: adds the 2^(k-1) a
\* whose bit is set in c
RECURSIVE MulBits(_, _, _, _, _)
MulBits(p, t, c, k, acc) ==
    IF c = 0 \/ acc < 0 THEN acc
    ELSE MulBits(p, t, c \div 2, k + 1,
                 IF c % 2 = 1 THEN AddP(p, acc, t[k]) ELSE acc)

\* a * b mod p by Horner's rule on the four bytes of b
MulP(p, a, b) ==
    IF a = 0 \/ b = 0 THEN 0
    ELSE IF b = 1 THEN a
    ELSE IF a = 1 THEN b
    ELSE LET t == Doublings(p, <<a>>, 7)
             s3 == MulBits(p, t, b \div 16777216, 1, 0)
             s2 == MulBits(p, t, (b \div 65536) % 256, 1, ShlP(p, s3, 8))
             s1 == MulBits(p, t, (b \div 256) % 256, 1, ShlP(p, s2, 8))
         IN MulBits(p, t, b % 256, 1, ShlP(p, s1, 8))

\* acc^(2^k) * a^e for e < 2^k, square-and-multiply from bit k - 1 of e down
RECURSIVE PowBits(_, _, _, _, _)
PowBits(p, a, e, k, acc) ==
    IF k = 0 \/ acc = 0 THEN acc
    ELSE LET s == MulP(p, acc, acc)
         IN PowBits(p, a, e, k - 1,
                    IF (e \div 2 ^ (k - 1)) % 2 = 1 THEN MulP(p, s, a) ELSE s)

\* a^e for e < 2^32, a byte of e at a time
PowP(p, a, e) ==
    LET s3 == PowBits(p, a, e \div 16777216, 8, 1)
        s2 == PowBits(p, a, (e \div 65536) % 256, 8, s3)
        s1 == PowBits(p, a, (e \div 256) % 256, 8, s2)
    IN PowBits(p, a, e % 256, 8, s1)

InvP(p, a) == PowP(p, a, p - 2)

\* acc + s[k] + ... + s[Len(s)]
RECURSIVE SumP(_, _, _, _)
SumP(p, s, k, acc) ==
    IF k > Len(s) \/ acc < 0 THEN acc
    ELSE SumP(p, s, k + 1, AddP(p, acc, s[k]))

\* the matrix-vector product M x, by the definition
MatVec(p, M, x) ==
    [i \in 1..Len(M) |->
        SumP(p, [j \in 1..Len(x) |-> MulP(p, x[j], M[i][j])], 1, 0)]

-----------------------------------------------------------------------------
\* u64 values as four 16-bit limbs, least significant first. Every operation
\* returns the wrapped 64-bit value and whether bits were lost.

LimbBase == 65536

U64Zero == <<0, 0, 0, 0>>

\* `x as u64` for a u32 below 2^31
U64From(v) == <<v % LimbBase, v \div LimbBase, 0, 0>>

U64Add(a, b) ==
    LET s1 == a[1] + b[1]
        s2 == a[2] + b[2] + (s1 \div LimbBase)
        s3 == a[3] + b[3] + (s2 \div LimbBase)
        s4 == a[4] + b[4] + (s3 \div LimbBase)
    IN [val |-> <<s1 % LimbBase, s2 % LimbBase, s3 % LimbBase, s4 % LimbBase>>,
        wrapped |-> s4 >= LimbBase]

\* a << k on u64 (k < 64): the bits shifted out of the top are dropped.
\* w holds the five limbs of a * 2^(k % 16), which the result has k \div 16
\* limbs higher
U64Shl(a, k) ==
    LET q == k \div 16
        m == 2 ^ (k % 16)
        w == [j \in 1..5 |->
                (IF j <= 4 THEN (a[j] * m) % LimbBase ELSE 0)
                + (IF j >= 2 THEN (a[j - 1] * m) \div LimbBase ELSE 0)]
    IN [val |-> [i \in 1..4 |-> IF i - q >= 1 THEN w[i - q] ELSE 0],
        wrapped |-> \E j \in 1..5 : j + q > 4 /\ w[j] # 0]

\* v * m as u64, for v < 2^31 and m < 2^15
U64Scale(v, m) ==
    LET lo == (v % LimbBase) * m
        hi == (v \div LimbBase) * m + (lo \div LimbBase)
    IN <<lo % LimbBase, hi % LimbBase, hi \div LimbBase, 0>>

U64Leq(a, b) ==
    \/ a = b
    \/ \E i \in 1..4 : a[i] < b[i] /\ \A j \in (i + 1)..4 : a[j] = b[j]

\* x mod p for a u64 x
U64Mod(p, a) ==
    LET r4 == a[4] % p
        r3 == AddP(p, MulP(p, r4, LimbBase % p), a[3] % p)
        r2 == AddP(p, MulP(p, r3, LimbBase % p), a[2] % p)
    IN AddP(p, MulP(p, r2, LimbBase % p), a[1] % p)

-----------------------------------------------------------------------------
\* The KoalaBear field: p = 2^31 - 2^24 + 1, elements stored in Montgomery form
\* (the stored u32 `value` r stands for the field element r * R^-1, R = 2^32).
\* A KoalaBear is modelled by its stored value.

ORDER_U32 == 2130706433

MONTY_BITS == 32

\* R mod p and R^-1 mod p
MontyR == PowP(ORDER_U32, 2, MONTY_BITS)

MontyRInv == InvP(ORDER_U32, MontyR)

\* reduce(x) = x * R^-1 mod p, the canonical value in [0, p)
monty_reduce(x) == MulP(ORDER_U32, U64Mod(ORDER_U32, x), MontyRInv)

to_monty(x) == MulP(ORDER_U32, x % ORDER_U32, MontyR)

from_monty(v) == MulP(ORDER_U32, v, MontyRInv)

to_koalabear_array(a) == [i \in 1..Len(a) |-> to_monty(a[i])]

\* -x on KoalaBear: the canonical representative of the negated element
KoalaBearNeg(v) == NegP(ORDER_U32, v)

\* x * y on KoalaBear (Montgomery product of the stored values)
KoalaBearMul(v, w) == MulP(ORDER_U32, MulP(ORDER_U32, v, w), MontyRInv)

KoalaBearAdd(v, w) == AddP(ORDER_U32, v, w)

-----------------------------------------------------------------------------
\* koala-bear/src/poseidon2.rs: the diagonal specification

MONTY_INVERSE == 1

POSEIDON2_INTERNAL_MATRIX_DIAG_16_KOALABEAR_MONTY ==
    to_koalabear_array(<<ORDER_U32 - 2, 1, 2^1, 2^2, 2^3, 2^4, 2^5, 2^6, 2^7,
                         2^8, 2^9, 2^10, 2^11, 2^12, 2^13, 2^15>>)

POSEIDON2_INTERNAL_MATRIX_DIAG_16_MONTY_SHIFTS ==
    <<0, 1, 2, 3, 4, 5, 6, 7, 8, 9, 10, 11, 12, 13, 15>>

POSEIDON2_INTERNAL_MATRIX_DIAG_24_KOALABEAR_MONTY ==
    to_koalabear_array(<<ORDER_U32 - 2, 1, 2^1, 2^2, 2^3, 2^4, 2^5, 2^6, 2^7,
                         2^8, 2^9, 2^10, 2^11, 2^12, 2^13, 2^14, 2^15, 2^16,
                         2^17, 2^18, 2^19, 2^20, 2^21, 2^23>>)

\* the width 24 shifts with the last one continuing the run of the others
SHIFTS_24_Consecutive ==
    <<0, 1, 2, 3, 4, 5, 6, 7, 8, 9, 10, 11, 12, 13, 14, 15, 16, 17, 18, 19,
      20, 21, 22>>

POSEIDON2_INTERNAL_MATRIX_DIAG_24_MONTY_SHIFTS ==
    <<0, 1, 2, 3, 4, 5, 6, 7, 8, 9, 10, 11, 12, 13, 14, 15, 16, 17, 18, 19,
      20, 21, 23>>

\* The widths DiffusionMatrixKoalaBear implements InternalLayer for, with the
\* tables of each
Widths == {16, 24}

DiagOf(w) ==
    IF w = 16 THEN POSEIDON2_INTERNAL_MATRIX_DIAG_16_KOALABEAR_MONTY
    ELSE POSEIDON2_INTERNAL_MATRIX_DIAG_24_KOALABEAR_MONTY

ShiftsOf(w) ==
    IF w = 16 THEN POSEIDON2_INTERNAL_MATRIX_DIAG_16_MONTY_SHIFTS
    ELSE POSEIDON2_INTERNAL_MATRIX_DIAG_24_MONTY_SHIFTS

-----------------------------------------------------------------------------
\* koala-bear/src/poseidon2.rs: permute_mut. Arrays are 1-based here: state[i]
\* of the source is st[i + 1], shifts[i - 1] of the source is shifts[i].
\* The result carries the new array and, per output, the accumulator that was
\* handed to monty_reduce (acc) and whether computing it wrapped (wrapped).

\* state.iter().skip(1).map(|x| x.value as u64).sum(): acc plus the elements
\* at the source indices k.. (the test on acc only fixes the evaluation order)
RECURSIVE PartSum(_, _, _)
PartSum(st, k, acc) ==
    IF k >= Len(st) \/ DOMAIN acc = {} THEN acc
    ELSE LET s == U64Add(acc.val, U64From(st[k + 1]))
         IN PartSum(st, k + 1, [val |-> s.val, wrapped |-> acc.wrapped \/ s.wrapped])

\* one iteration of `for i in 1..N`, for the source index i, on the array as
\* the earlier iterations left it
ShiftStep_ShiftOneMore(r, shifts, i) ==
    LET sh == U64Shl(U64From(r.state[i + 1]), shifts[i] + 1)
        si == U64Add(r.full_sum.val, sh.val)
    IN [r EXCEPT
          !.state = [r.state EXCEPT ![i + 1] = monty_reduce(si.val)],
          !.accs = Append(r.accs,
                     [val |-> si.val,
                      wrapped |-> r.full_sum.wrapped \/ sh.wrapped \/ si.wrapped])]

ShiftStep(r, shifts, i) ==
    LET sh == U64Shl(U64From(r.state[i + 1]), shifts[i])
        si == U64Add(r.full_sum.val, sh.val)
    IN [r EXCEPT
          !.state = [r.state EXCEPT ![i + 1] = monty_reduce(si.val)],
          !.accs = Append(r.accs,
                     [val |-> si.val,
                      wrapped |-> r.full_sum.wrapped \/ sh.wrapped \/ si.wrapped])]

RECURSIVE ShiftLoop(_, _, _)
ShiftLoop(r, shifts, i) ==
    IF i >= Len(r.state) THEN r
    ELSE ShiftLoop(ShiftStep(r, shifts, i), shifts, i + 1)

\* variants of permute_mut: the sum taken without skip(1), and full_sum taken
\* after state[0] was overwritten
permute_mut_NoSkip(st, shifts) ==
    LET N == Len(st)
        part_sum == PartSum(st, 0, [val |-> U64Zero, wrapped |-> FALSE])
        fs == U64Add(part_sum.val, U64From(st[1]))
        s0 == U64Add(part_sum.val, U64From(KoalaBearNeg(st[1])))
        r0 == [state |-> [st EXCEPT ![1] = monty_reduce(s0.val)],
               accs |-> <<[val |-> s0.val,
                           wrapped |-> part_sum.wrapped \/ s0.wrapped]>>,
               full_sum |-> [val |-> fs.val,
                             wrapped |-> part_sum.wrapped \/ fs.wrapped]]
    IN ShiftLoop(r0, shifts, 1)

permute_mut_StaleFullSum(st, shifts) ==
    LET N == Len(st)
        part_sum == PartSum(st, 1, [val |-> U64Zero, wrapped |-> FALSE])
        s0 == U64Add(part_sum.val, U64From(KoalaBearNeg(st[1])))
        fs == U64Add(part_sum.val, U64From(monty_reduce(s0.val)))
        r0 == [state |-> [st EXCEPT ![1] = monty_reduce(s0.val)],
               accs |-> <<[val |-> s0.val,
                           wrapped |-> part_sum.wrapped \/ s0.wrapped]>>,
               full_sum |-> [val |-> fs.val,
                             wrapped |-> part_sum.wrapped \/ fs.wrapped]]
    IN ShiftLoop(r0, shifts, 1)

permute_mut(st, shifts) ==
    LET N == Len(st)
        part_sum == PartSum(st, 1, [val |-> U64Zero, wrapped |-> FALSE])
        fs == U64Add(part_sum.val, U64From(st[1]))
        s0 == U64Add(part_sum.val, U64From(KoalaBearNeg(st[1])))
        r0 == [state |-> [st EXCEPT ![1] = monty_reduce(s0.val)],
               accs |-> <<[val |-> s0.val,
                           wrapped |-> part_sum.wrapped \/ s0.wrapped]>>,
               full_sum |-> [val |-> fs.val,
                             wrapped |-> part_sum.wrapped \/ fs.wrapped]]
    IN ShiftLoop(r0, shifts, 1)

-----------------------------------------------------------------------------
\* Inputs of the diffusion model

\* stored values a state may be built from: 0, 1, p - 1 and arbitrary ones
SampleVals == <<ORDER_U32 - 1, 0, 1, 894848333, 1437655012, 65536>>

NumSamples == 3

MaxCalls == 2

Vals == {SampleVals[i] : i \in 1..Min(NumSamples, Len(SampleVals))}

\* arrays with a at index 0, c at one later index and b elsewhere
DiagInputs(w) ==
    {[i \in 1..w |-> IF i = 1 THEN a ELSE IF i = pos THEN c ELSE b] :
        a \in Vals, b \in Vals, c \in Vals, pos \in {2, w}}

\* the variables of the models that are not running
DiagIdle ==
    /\ width = 0
    /\ state = <<>>
    /\ old = <<>>
    /\ accs = <<>>

MdsIdle ==
    /\ n = 0
    /\ mds = [status |-> "none"]
    /\ values = <<>>
    /\ layers = <<>>
    /\ ret = <<>>
    /\ hist = <<>>

InitDiag ==
    /\ width \in Widths
    /\ state \in DiagInputs(width)
    /\ old = state
    /\ accs = <<>>
    /\ calls = 0
    /\ MdsIdle
    /\ lin = <<>>

\* DiffusionMatrixKoalaBear, width 16: |x| permute_mut(x, &..._16_MONTY_SHIFTS)
Diffuse16 ==
    /\ width = 16
    /\ calls < MaxCalls
    /\ LET r == permute_mut(state, POSEIDON2_INTERNAL_MATRIX_DIAG_16_MONTY_SHIFTS)
       IN /\ state' = r.state
          /\ accs' = r.accs
    /\ old' = state
    /\ calls' = calls + 1
    /\ UNCHANGED <<width, mdsVars, lin>>

\* DiffusionMatrixKoalaBear, width 24: |x| permute_mut(x, &..._24_MONTY_SHIFTS)
Diffuse24 ==
    /\ width = 24
    /\ calls < MaxCalls
    /\ LET r == permute_mut(state, POSEIDON2_INTERNAL_MATRIX_DIAG_24_MONTY_SHIFTS)
       IN /\ state' = r.state
          /\ accs' = r.accs
    /\ old' = state
    /\ calls' = calls + 1
    /\ UNCHANGED <<width, mdsVars, lin>>

NextDiag == Diffuse16 \/ Diffuse24

SpecDiag == InitDiag /\ [][NextDiag]_vars

-----------------------------------------------------------------------------
\* The field of the coset MDS permutation.  CosetMds is generic over a
\* TwoAdicField; the instantiation is the one of tests::matches_naive, BabyBear.

F_ORDER == 2013265921

GENERATOR == 31

TWO_ADICITY == 27

\* a generator of the multiplicative subgroup of order 2^TWO_ADICITY
TWO_ADIC_BASE == 440564289

FAdd(a, b) == AddP(F_ORDER, a, b)
FSub(a, b) == SubP(F_ORDER, a, b)
FMul(a, b) == MulP(F_ORDER, a, b)
FInverse(a) == InvP(F_ORDER, a)

\* the base squared TWO_ADICITY - bits times: a generator of the subgroup of
\* order 2^bits
two_adic_generator(bits) == PowP(F_ORDER, TWO_ADIC_BASE, 2 ^ (TWO_ADICITY - bits))

\* x.powers().take(k), collected, onto t
RECURSIVE Powers(_, _, _)
Powers(x, k, t) ==
    IF Len(t) >= k \/ x < 0 THEN t
    ELSE Powers(x, k, Append(t, IF t = <<>> THEN 1 ELSE FMul(t[Len(t)], x)))

IsPowerOfTwo(N) == \E k \in 0..N : N = 2 ^ k

\* log2_strict_usize: the exact logarithm; the caller panics where there is none
log2_strict_usize(N) == CHOOSE k \in 0..N : N = 2 ^ k

RECURSIVE reverse_bits_len(_, _)
reverse_bits_len(i, bits) ==
    IF bits = 0 THEN 0
    ELSE (i % 2) * 2 ^ (bits - 1) + reverse_bits_len(i \div 2, bits - 1)

\* reverse_slice_index_bits: nothing to do for an empty slice, a panic for a
\* length that is not a power of two, else element i moves to reverse(i)
reverse_slice_index_bits(vals) ==
    IF Len(vals) = 0 THEN vals
    ELSE LET log_n == log2_strict_usize(Len(vals))
         IN [i \in 1..Len(vals) |-> vals[reverse_bits_len(i - 1, log_n) + 1]]

-----------------------------------------------------------------------------
\* Butterflies, on positions hi and lo (counted from 0) of the array

twiddle_free_butterfly(vals, hi, lo) ==
    [vals EXCEPT ![hi + 1] = FAdd(vals[hi + 1], vals[lo + 1]),
                 ![lo + 1] = FSub(vals[hi + 1], vals[lo + 1])]

dif_butterfly(vals, hi, lo, twiddle) ==
    [vals EXCEPT ![hi + 1] = FAdd(vals[hi + 1], vals[lo + 1]),
                 ![lo + 1] = FMul(FSub(vals[hi + 1], vals[lo + 1]), twiddle)]

dit_butterfly(vals, hi, lo, twiddle) ==
    LET lo_t == FMul(vals[lo + 1], twiddle)
    IN [vals EXCEPT ![hi + 1] = FAdd(vals[hi + 1], lo_t),
                    ![lo + 1] = FSub(vals[hi + 1], lo_t)]

-----------------------------------------------------------------------------
\* CosetMds

\* variants of Default::default: the shift 1 in place of GENERATOR, and the
\* width truncated to the power of two below it in place of the panic
CosetMdsDefault_UnitShift(N) ==
    IF ~IsPowerOfTwo(N) THEN [status |-> "panicked"]
    ELSE LET log_n == log2_strict_usize(N)
             root == two_adic_generator(log_n)
             root_inv == FInverse(root)
         IN [status |-> "built",
             fft_twiddles |-> reverse_slice_index_bits(Powers(root, N \div 2, <<>>)),
             ifft_twiddles |-> reverse_slice_index_bits(Powers(root_inv, N \div 2, <<>>)),
             weights |-> reverse_slice_index_bits(Powers(1, N, <<>>))]

CosetMdsDefault_Truncating(N) ==
    LET log_n == CHOOSE k \in 0..(N + 1) : 2 ^ k <= N + 1 /\ (N < 2 \/ N < 2 ^ (k + 1))
        T == 2 ^ log_n
        root == two_adic_generator(log_n)
        root_inv == FInverse(root)
    IN [status |-> "built",
        fft_twiddles |-> reverse_slice_index_bits(Powers(root, T \div 2, <<>>)),
        ifft_twiddles |-> reverse_slice_index_bits(Powers(root_inv, T \div 2, <<>>)),
        weights |-> reverse_slice_index_bits(Powers(GENERATOR, T, <<>>))]

\* Default::default for the const generic N
CosetMdsDefault(N) ==
    IF ~IsPowerOfTwo(N) THEN [status |-> "panicked"]
    ELSE LET log_n == log2_strict_usize(N)
             root == two_adic_generator(log_n)
             root_inv == FInverse(root)
         IN [status |-> "built",
             fft_twiddles |-> reverse_slice_index_bits(Powers(root, N \div 2, <<>>)),
             ifft_twiddles |-> reverse_slice_index_bits(Powers(root_inv, N \div 2, <<>>)),
             weights |-> reverse_slice_index_bits(Powers(GENERATOR, N, <<>>))]

\* The butterflies one layer applies, in the order of its two loops: the
\* unrolled block 0, then the blocks the zip of 1..num_blocks with
\* twiddles[1..] yields.  tw is the index into twiddles, -1 for none.
LayerButterflies(N, log_half_block_size, num_twiddles, butterfly) ==
    LET log_block_size == log_half_block_size + 1
        half_block_size == 2 ^ log_half_block_size
        num_blocks == N \div 2 ^ log_block_size
        zipped == IF num_blocks <= 1 \/ num_twiddles <= 1 THEN 0
                  ELSE Min(num_blocks - 1, num_twiddles - 1)
    IN [m \in 1..(half_block_size * (1 + zipped)) |->
            LET block == (m - 1) \div half_block_size
                block_start == block * 2 ^ log_block_size
                hi == block_start + ((m - 1) % half_block_size)
            IN [kind |-> IF block = 0 THEN "twiddle_free" ELSE butterfly,
                block |-> block,
                hi |-> hi,
                lo |-> hi + half_block_size,
                tw |-> IF block = 0 THEN -1 ELSE block]]

\* a layer panics on the slice twiddles[1..] of an empty table and on an
\* index beyond the array
LayerPanics(N, bs, num_twiddles) ==
    num_twiddles < 1 \/ \E m \in 1..Len(bs) : bs[m].lo >= N

ApplyButterfly(vals, b, twiddles) ==
    IF b.kind = "twiddle_free" THEN twiddle_free_butterfly(vals, b.hi, b.lo)
    ELSE IF b.kind = "dif" THEN dif_butterfly(vals, b.hi, b.lo, twiddles[b.tw + 1])
    ELSE dit_butterfly(vals, b.hi, b.lo, twiddles[b.tw + 1])

RECURSIVE ApplyButterflies(_, _, _, _)
ApplyButterflies(vals, bs, m, twiddles) ==
    IF m > Len(bs) \/ vals = <<>> THEN vals
    ELSE ApplyButterflies(ApplyButterfly(vals, bs[m], twiddles), bs, m + 1, twiddles)

\* the record a network threads through its layers
RunLayer(r, net, h, bs, twiddles) ==
    IF r.panicked \/ LayerPanics(Len(r.values), bs, Len(twiddles))
    THEN [r EXCEPT !.panicked = TRUE]
    ELSE [r EXCEPT !.values = ApplyButterflies(r.values, bs, 1, twiddles),
                   !.layers = Append(r.layers, [net |-> net, h |-> h, butterflies |-> bs])]

\* bowers_g_layer with the zip taken over twiddles[2..]
bowers_g_layer_ShortZip(r, log_half_block_size, twiddles) ==
    RunLayer(r, "bowers_g", log_half_block_size,
             LayerButterflies(Len(r.values), log_half_block_size, Len(twiddles) - 1, "dif"),
             twiddles)

bowers_g_layer(r, log_half_block_size, twiddles) ==
    RunLayer(r, "bowers_g", log_half_block_size,
             LayerButterflies(Len(r.values), log_half_block_size, Len(twiddles), "dif"),
             twiddles)

bowers_g_t_layer(r, log_half_block_size, twiddles) ==
    RunLayer(r, "bowers_g_t", log_half_block_size,
             LayerButterflies(Len(r.values), log_half_block_size, Len(twiddles), "dit"),
             twiddles)

\* for log_half_block_size in 0..log_n
RECURSIVE BowersGLoop(_, _, _, _)
BowersGLoop(r, h, log_n, twiddles) ==
    IF h >= log_n \/ r.panicked THEN r
    ELSE BowersGLoop(bowers_g_layer(r, h, twiddles), h + 1, log_n, twiddles)

bowers_g(r, twiddles) ==
    BowersGLoop(r, 0, log2_strict_usize(Len(r.values)), twiddles)

\* for log_half_block_size in (0..log_n).rev(); h counts the layers left
RECURSIVE BowersGTLoop(_, _, _)
BowersGTLoop(r, h, twiddles) ==
    IF h <= 0 \/ r.panicked THEN r
    ELSE BowersGTLoop(bowers_g_t_layer(r, h - 1, twiddles), h - 1, twiddles)

bowers_g_t(r, twiddles) ==
    BowersGTLoop(r, log2_strict_usize(Len(r.values)), twiddles)

\* the rescale with the weight added in place of multiplied
CosetRescale_Adding(r, weights) ==
    [r EXCEPT !.values = [i \in 1..Len(r.values) |->
        IF i <= Len(weights) THEN FAdd(r.values[i], weights[i]) ELSE r.values[i]]]

\* for (value, weight) in values.iter_mut().zip(self.weights)
CosetRescale(r, weights) ==
    [r EXCEPT !.values = [i \in 1..Len(r.values) |->
        IF i <= Len(weights) THEN FMul(r.values[i], weights[i]) ELSE r.values[i]]]

\* permute_mut with the two twiddle tables exchanged
CosetMds_permute_mut_SwappedTables(self, vals) ==
    LET r0 == [values |-> vals, layers |-> <<>>, panicked |-> FALSE]
        r1 == bowers_g_t(r0, self.fft_twiddles)
        r2 == CosetRescale(r1, self.weights)
    IN bowers_g(r2, self.ifft_twiddles)

CosetMds_permute_mut(self, vals) ==
    LET r0 == [values |-> vals, layers |-> <<>>, panicked |-> FALSE]
        r1 == bowers_g_t(r0, self.ifft_twiddles)
        r2 == CosetRescale(r1, self.weights)
    IN bowers_g(r2, self.fft_twiddles)

\* permute handing back its argument as it got it
CosetMds_permute_Identity(self, in) ==
    [values |-> in, layers |-> <<>>, panicked |-> FALSE]

\* permute: permute_mut on the array it was handed by value, which it returns
CosetMds_permute(self, in) == CosetMds_permute_mut(self, in)

-----------------------------------------------------------------------------
\* The coset MDS permutation as a state machine: one instance is constructed
\* for the width n, then called.

MaxLogN == 3

NumVectors == 2

MdsWidths == 0..(2 ^ MaxLogN)

UnitVector(N, j) == [i \in 1..N |-> IF i = j THEN 1 ELSE 0]

SampleVector(N, s) == [i \in 1..N |-> FMul(1000003 * i + s, 998244353)]

MdsInputs(N) ==
    {UnitVector(N, j) : j \in 1..N} \cup {SampleVector(N, s) : s \in 1..NumVectors}

\* the first call takes any input; a later one the caller's array as it is
\* now, or the input of the first call again
CallInputs == IF hist = <<>> THEN MdsInputs(n) ELSE {values, hist[1].in}

InitMds ==
    /\ DiagIdle
    /\ calls = 0
    /\ n \in MdsWidths
    /\ mds = [status |-> "none"]
    /\ values = <<>>
    /\ layers = <<>>
    /\ ret = <<>>
    /\ hist = <<>>
    /\ lin = <<>>

\* CosetMds::default()
Default ==
    /\ mds.status = "none"
    /\ mds' = CosetMdsDefault(n)
    /\ UNCHANGED <<diagVars, calls, n, values, layers, ret, hist, lin>>

\* self.permute_mut(&mut values)
PermuteMut ==
    /\ mds.status = "built"
    /\ calls < MaxCalls
    /\ \E x \in CallInputs :
         LET r == CosetMds_permute_mut(mds, x)
         IN /\ values' = r.values
            /\ layers' = r.layers
            /\ hist' = Append(hist, [kind |-> "permute_mut", in |-> x,
                                     out |-> r.values, panicked |-> r.panicked])
    /\ calls' = calls + 1
    /\ UNCHANGED <<diagVars, n, mds, ret, lin>>

\* ret = self.permute(values)
Permute ==
    /\ mds.status = "built"
    /\ calls < MaxCalls
    /\ \E x \in CallInputs :
         LET r == CosetMds_permute(mds, x)
         IN /\ values' = x
            /\ ret' = r.values
            /\ layers' = r.layers
            /\ hist' = Append(hist, [kind |-> "permute", in |-> x,
                                     out |-> r.values, panicked |-> r.panicked])
    /\ calls' = calls + 1
    /\ UNCHANGED <<diagVars, n, mds, lin>>

NextMds == Default \/ PermuteMut \/ Permute

SpecMds == InitMds /\ [][NextMds]_vars

-----------------------------------------------------------------------------
\* Both permutations applied to two states and to a linear combination of them

SampleState(w, s) == [i \in 1..w |-> MulP(ORDER_U32, 1000003 * i + s, 998244353)]

\* a * x + b * y, elementwise, on KoalaBear elements
KoalaBearCombine(a, x, b, y) ==
    [i \in 1..Len(x) |-> KoalaBearAdd(KoalaBearMul(a, x[i]), KoalaBearMul(b, y[i]))]

\* a * x + b * y, elementwise, on elements of the field of the coset MDS
FCombine(a, x, b, y) ==
    [i \in 1..Len(x) |-> FAdd(FMul(a, x[i]), FMul(b, y[i]))]

LinStart(f, N, a, b, x, y, z) ==
    [f |-> f, n |-> N, a |-> a, b |-> b, x |-> x, y |-> y, z |-> z,
     fx |-> <<>>, fy |-> <<>>, fz |-> <<>>, done |-> FALSE]

DiagLinInputs(f, w) ==
    {LinStart(f, w, a, b, SampleState(w, s), SampleState(w, t),
              KoalaBearCombine(a, SampleState(w, s), b, SampleState(w, t))) :
        a \in Vals, b \in Vals, s \in 1..NumVectors, t \in 1..NumVectors}

MdsLinInputs(N) ==
    {LinStart("coset_mds", N, a % F_ORDER, b % F_ORDER, SampleVector(N, s), SampleVector(N, t),
              FCombine(a % F_ORDER, SampleVector(N, s), b % F_ORDER, SampleVector(N, t))) :
        a \in Vals, b \in Vals, s \in 1..NumVectors, t \in 1..NumVectors}

InitLin ==
    /\ DiagIdle
    /\ MdsIdle
    /\ calls = 0
    /\ lin \in DiagLinInputs("diag16", 16) \cup DiagLinInputs("diag24", 24)
               \cup UNION {MdsLinInputs(2 ^ k) : k \in 0..MaxLogN}

LinDone(fx, fy, fz) ==
    /\ lin' = [lin EXCEPT !.fx = fx, !.fy = fy, !.fz = fz, !.done = TRUE]
    /\ UNCHANGED <<diagVars, mdsVars, calls>>

LinDiffuse16 ==
    /\ lin.f = "diag16" /\ ~lin.done
    /\ LinDone(permute_mut(lin.x, POSEIDON2_INTERNAL_MATRIX_DIAG_16_MONTY_SHIFTS).state,
               permute_mut(lin.y, POSEIDON2_INTERNAL_MATRIX_DIAG_16_MONTY_SHIFTS).state,
               permute_mut(lin.z, POSEIDON2_INTERNAL_MATRIX_DIAG_16_MONTY_SHIFTS).state)

LinDiffuse24 ==
    /\ lin.f = "diag24" /\ ~lin.done
    /\ LinDone(permute_mut(lin.x, POSEIDON2_INTERNAL_MATRIX_DIAG_24_MONTY_SHIFTS).state,
               permute_mut(lin.y, POSEIDON2_INTERNAL_MATRIX_DIAG_24_MONTY_SHIFTS).state,
               permute_mut(lin.z, POSEIDON2_INTERNAL_MATRIX_DIAG_24_MONTY_SHIFTS).state)

LinCosetMds ==
    /\ lin.f = "coset_mds" /\ ~lin.done
    /\ LET self == CosetMdsDefault(lin.n)
       IN LinDone(CosetMds_permute_mut(self, lin.x).values,
                  CosetMds_permute_mut(self, lin.y).values,
                  CosetMds_permute_mut(self, lin.z).values)

NextLin == LinDiffuse16 \/ LinDiffuse24 \/ LinCosetMds

SpecLin == InitLin /\ [][NextLin]_vars

-----------------------------------------------------------------------------
\* Properties of the diagonal diffusion

Called == calls > 0 /\ width \in Widths

\* the field element a stored value stands for, as its canonical residue
Canon(st) == [i \in 1..Len(st) |-> from_monty(st[i])]

\* v, the diagonal, as field elements
DiagValues(w) == Canon(DiagOf(w))

\* the dense matrix 1 + diag(v): every entry 1, plus v[i] on the diagonal
DenseMatrix(w) ==
    LET v == DiagValues(w)
    IN [i \in 1..w |-> [j \in 1..w |->
          IF i = j THEN AddP(ORDER_U32, 1, v[i]) ELSE 1]]

\* the naive reference: the dense matrix times the state, in the field
NaiveDiffusion(w, st) == MatVec(ORDER_U32, DenseMatrix(w), Canon(st))

\* C1 as stated: after permute_mut the state holds, as field elements, the
\* dense matrix (1 + diag(v)) times the state before the call.
C1_AsStated == Called => Canon(state) = NaiveDiffusion(width, old)

\* C1 (amended): after permute_mut the state holds, as field elements,
\* MONTY_INVERSE (the element R^-1) times the dense matrix (1 + diag(v)) times
\* the state before the call.
C1_ScaledEquivalence ==
    Called =>
        LET ref == NaiveDiffusion(width, old)
            rinv == from_monty(MONTY_INVERSE)
        IN Canon(state) = [i \in 1..width |-> MulP(ORDER_U32, rinv, ref[i])]

C1_Witness ==
    /\ Called
    /\ width = 24
    /\ old[1] # 0
    /\ old[24] # 0
    /\ Canon(state) # NaiveDiffusion(width, old)

\* N * (p - 1) as u64
SumBound(w) == U64Scale(ORDER_U32 - 1, w)

\* C6 as stated: no accumulator handed to monty_reduce wrapped, and each is at
\* most N * (p - 1).
C6_AsStated ==
    Called =>
        \A i \in 1..Len(accs) :
            ~accs[i].wrapped /\ U64Leq(accs[i].val, SumBound(width))

\* C6 (amended): no accumulator handed to monty_reduce wrapped; s0 is at most
\* N * (p - 1) and si is at most (N + 2^shifts[i-1]) * (p - 1).
C6_AccumulatorBounds ==
    Called =>
        /\ Len(accs) = width
        /\ ~accs[1].wrapped
        /\ U64Leq(accs[1].val, SumBound(width))
        /\ \A i \in 1..(width - 1) :
              LET sh == U64Shl(U64From(ORDER_U32 - 1), ShiftsOf(width)[i])
                  bound == U64Add(SumBound(width), sh.val)
              IN /\ ~sh.wrapped /\ ~bound.wrapped
                 /\ ~accs[i + 1].wrapped
                 /\ U64Leq(accs[i + 1].val, bound.val)

\* the largest accumulators: every element p - 1, width 24
C6_Witness ==
    /\ Called
    /\ width = 24
    /\ \A i \in 1..24 : old[i] = ORDER_U32 - 1
    /\ ~U64Leq(accs[24].val, SumBound(24))

\* C7: for both widths the shift table has N - 1 entries, all below 32, the
\* diagonal has N entries, entry 0 is p - 2, entry i is 2^shifts[i-1] mod p, and
\* the N entries are pairwise distinct field elements. A call computes all N
\* outputs, so every shifts[i-1] it indexes exists.
C7_DiagonalSpecification ==
    /\ \A w \in Widths :
        LET sh == ShiftsOf(w)
            v == DiagValues(w)
        IN /\ Len(sh) = w - 1
           /\ Len(v) = w
           /\ \A i \in 1..Len(sh) : sh[i] >= 0 /\ sh[i] < 32
           /\ v[1] = ORDER_U32 - 2
           /\ \A i \in 2..w : v[i] = ShlP(ORDER_U32, 1, sh[i - 1])
           /\ \A i, j \in 1..w : i # j => v[i] # v[j]
    /\ Called => Len(state) = width /\ Len(accs) = width

C7_Witness == Called /\ width = 24 /\ Len(accs) = 24 /\ calls = MaxCalls

\* C9: each output is one reduction of an accumulator built from the state
\* before the call: new[0] = reduce(part_sum + raw(-old[0])) with the negation
\* canonical, new[i] = reduce(full_sum + (raw(old[i]) << shifts[i-1])) with
\* full_sum = part_sum + raw(old[0]); so new[0] = (sum - 2 old[0]) R^-1 and
\* new[i] = (sum + 2^shifts[i-1] old[i]) R^-1 modulo p.
C9_OutputsFromOldState ==
    Called =>
        LET N == Len(old)
            sh == ShiftsOf(width)
            part_sum == PartSum(old, 1, [val |-> U64Zero, wrapped |-> FALSE])
            full_sum == U64Add(part_sum.val, U64From(old[1]))
            neg == IF old[1] = 0 THEN 0 ELSE ORDER_U32 - old[1]
            sum == SumP(ORDER_U32, old, 1, 0)
        IN /\ accs[1].val = U64Add(part_sum.val, U64From(neg)).val
           /\ state[1] = monty_reduce(accs[1].val)
           /\ state[1] = MulP(ORDER_U32,
                              SubP(ORDER_U32, sum, DblP(ORDER_U32, old[1])),
                              MontyRInv)
           /\ \A i \in 1..(N - 1) :
                /\ accs[i + 1].val =
                     U64Add(full_sum.val, U64Shl(U64From(old[i + 1]), sh[i]).val).val
                /\ state[i + 1] = monty_reduce(accs[i + 1].val)
                /\ state[i + 1] =
                     MulP(ORDER_U32,
                          AddP(ORDER_U32, sum, ShlP(ORDER_U32, old[i + 1], sh[i])),
                          MontyRInv)

\* the edge case old[0] = 0 with a nonzero rest
C9_Witness == Called /\ old[1] = 0 /\ old[2] # 0 /\ state[1] # 0

-----------------------------------------------------------------------------
\* Properties of the coset MDS permutation

Built == mds.status = "built"

LastCall == hist[Len(hist)]

\* NaiveDft::dft: out[i] = sum over j of x[j] * g^(i*j), g of order Len(x)
NaiveDft(x, g_powers) ==
    [i \in 1..Len(x) |->
        SumP(F_ORDER,
             [j \in 1..Len(x) |-> FMul(x[j], g_powers[(((i - 1) * (j - 1)) % Len(x)) + 1])],
             1, 0)]

\* the inverse transform: the forward one on the inverse root, divided by N
NaiveIdft(x, g_inv_powers) ==
    LET n_inv == FInverse(Len(x) % F_ORDER)
        sums == NaiveDft(x, g_inv_powers)
    IN [k \in 1..Len(x) |-> FMul(sums[k], n_inv)]

\* coset_lde with no added bits: interpolate on the subgroup, scale coefficient
\* k by shift^k, evaluate on the subgroup
NaiveCosetLde(x, shift) ==
    LET N == Len(x)
        g == two_adic_generator(log2_strict_usize(N))
        coeffs == NaiveIdft(x, Powers(FInverse(g), N, <<>>))
        shift_powers == Powers(shift, N, <<>>)
        shifted == [k \in 1..N |-> FMul(coeffs[k], shift_powers[k])]
    IN IF shifted = <<>> THEN shifted ELSE NaiveDft(shifted, Powers(g, N, <<>>))

Scaled(c, x) == [i \in 1..Len(x) |-> FMul(c, x[i])]

\* C2: the array a call of permute_mut (or permute) on a power-of-two width
\* leaves is N times the naive coset low-degree extension of its input, in
\* natural order; for N = 1 that is the input itself.
C2_MatchesNaive ==
    (Built /\ hist # <<>>) =>
        /\ ~LastCall.panicked
        /\ LastCall.out = Scaled(n % F_ORDER, NaiveCosetLde(LastCall.in, GENERATOR))
        /\ (n = 1 => LastCall.out = LastCall.in)

C2_Witness ==
    /\ Built /\ n = 8 /\ hist # <<>>
    /\ LastCall.kind = "permute_mut"
    /\ LastCall.in = SampleVector(8, 1)
    /\ values = LastCall.out

\* the widths whose every minor is computed
MaxLogMds == 2

\* the matrix whose column j is permute(e_j), as M[row][column]
MdsMatrix(N) ==
    LET self == CosetMdsDefault(N)
        cols == [j \in 1..N |-> CosetMds_permute(self, UnitVector(N, j)).values]
    IN [i \in 1..N |-> [j \in 1..N |-> cols[j][i]]]

\* the subsets of 1..N, indexed by their bit masks
MaskBits(N) == [m \in 0..(2 ^ N - 1) |-> {i \in 1..N : (m \div 2 ^ (i - 1)) % 2 = 1}]

MaxOf(S) == CHOOSE c \in S : \A d \in S : d <= c

Sorted(S) == [j \in 1..Cardinality(S) |-> CHOOSE c \in S : Cardinality({d \in S : d < c}) = j - 1]

\* determinants of the k x k submatrices, by row mask and column mask, from
\* those of the (k-1) x (k-1) ones, expanding along the last row
MinorsOfSize(M, N, k, prev, bits) ==
    [r \in 0..(2 ^ N - 1) |-> [c \in 0..(2 ^ N - 1) |->
        IF Cardinality(bits[r]) # k \/ Cardinality(bits[c]) # k THEN 0
        ELSE LET row == MaxOf(bits[r])
                 cs == Sorted(bits[c])
             IN IF k = 1 THEN M[row][cs[1]]
                ELSE SumP(F_ORDER, [j \in 1..k |->
                     LET t == FMul(M[row][cs[j]], prev[r - 2 ^ (row - 1)][c - 2 ^ (cs[j] - 1)])
                     IN IF (k + j) % 2 = 0 THEN t ELSE NegP(F_ORDER, t)], 1, 0)]]

\* (comparing a function evaluates it once, for all the look-ups that follow)
RECURSIVE NoSingularFrom(_, _, _, _, _)
NoSingularFrom(M, N, k, prev, bits) ==
    IF k > N THEN TRUE
    ELSE LET cur == MinorsOfSize(M, N, k, prev, bits)
             ks == {m \in DOMAIN bits : Cardinality(bits[m]) = k}
         IN IF cur # cur \/ \E r \in ks, c \in ks : cur[r][c] = 0 THEN FALSE
            ELSE NoSingularFrom(M, N, k + 1, cur, bits)

EverySquareSubmatrixNonSingular(M, N) ==
    LET bits == MaskBits(N)
    IN M = M /\ bits = bits /\ NoSingularFrom(M, N, 1, <<>>, bits)

\* the matrices of the widths 2^k, by k
MdsMatrices == [k \in 0..MaxLogMds |-> MdsMatrix(2 ^ k)]

IsMds == [k \in 0..MaxLogMds |-> EverySquareSubmatrixNonSingular(MdsMatrices[k], 2 ^ k)]

\* C3: for a unit vector e_j the call returns column j of the matrix of the
\* width, and every square submatrix of that matrix is non-singular.
C3_MdsProperty ==
    (Built /\ n <= 2 ^ MaxLogMds) =>
        /\ IsMds[log2_strict_usize(n)]
        /\ \A c \in 1..Len(hist) : \A j \in 1..n :
             hist[c].in = UnitVector(n, j) =>
                hist[c].out = [i \in 1..n |-> MdsMatrices[log2_strict_usize(n)][i][j]]

C3_Witness ==
    /\ Built /\ n = 2 ^ MaxLogMds /\ hist # <<>>
    /\ LastCall.in = UnitVector(n, n)

\* C5: construction ends in a panic with no table for every width that is not
\* a power of two, 0 included, and in an instance with tables of lengths N/2,
\* N/2 and N for every power of two.
C5_ConstructionPanics ==
    mds.status # "none" =>
        IF n \in {2 ^ k : k \in 0..MaxLogN}
        THEN /\ mds.status = "built"
             /\ Len(mds.fft_twiddles) = n \div 2
             /\ Len(mds.ifft_twiddles) = n \div 2
             /\ Len(mds.weights) = n
        ELSE /\ mds.status = "panicked"
             /\ DOMAIN mds = {"status"}

C5_Witness == n = 0 /\ mds.status = "panicked"

\* C8: the tables of the instance stay what construction made them; calls on
\* equal inputs leave equal outputs, whatever their kind and whatever ran
\* before; permute hands back the output and leaves the caller's array alone.
C8_TablesUnchanged ==
    Built =>
        /\ mds = CosetMdsDefault(n)
        /\ \A c \in 1..Len(hist) : \A d \in 1..Len(hist) :
             hist[c].in = hist[d].in => hist[c].out = hist[d].out
        /\ (hist # <<>> /\ LastCall.kind = "permute") =>
             (ret = LastCall.out /\ values = LastCall.in)
        /\ (hist # <<>> /\ LastCall.kind = "permute_mut") => values = LastCall.out

C8_Witness ==
    /\ Built /\ n = 4 /\ Len(hist) = 2
    /\ hist[1].kind = "permute" /\ hist[2].kind = "permute_mut"
    /\ hist[1].in = hist[2].in
    /\ hist[1].in = SampleVector(4, 2)

\* the butterflies of one layer of a width-N network
LayerCovers(N, l) ==
    LET bs == l.butterflies
        num_blocks == N \div 2 ^ (l.h + 1)
    IN /\ Len(bs) = N \div 2
       /\ \A m \in 1..Len(bs) : bs[m].lo = bs[m].hi + 2 ^ l.h /\ bs[m].lo < N /\ bs[m].hi >= 0
       /\ \A i \in 0..(N - 1) :
            Cardinality({m \in 1..Len(bs) : bs[m].hi = i \/ bs[m].lo = i}) = 1
       /\ {bs[m].block : m \in 1..Len(bs)} = 0..(num_blocks - 1)
       /\ \A m \in 1..Len(bs) :
            /\ bs[m].hi \div 2 ^ (l.h + 1) = bs[m].block
            /\ IF bs[m].block = 0
               THEN bs[m].kind = "twiddle_free"
               ELSE /\ bs[m].kind = (IF l.net = "bowers_g" THEN "dif" ELSE "dit")
                    /\ bs[m].tw = bs[m].block
                    /\ bs[m].tw < N \div 2

\* C10: every layer of a call on a width N >= 2 applies N/2 butterflies with
\* lo = hi + 2^h < N that cover each index once, twiddle-free in block 0 and
\* with twiddles[b] in every block b >= 1; the inverse network runs h from
\* log2(N)-1 down to 0 and the forward one from 0 up; no call panics.
C10_ButterflyCoverage ==
    (Built /\ n >= 2 /\ hist # <<>>) =>
        LET log_n == log2_strict_usize(n)
        IN /\ ~LastCall.panicked
           /\ Len(mds.fft_twiddles) = n \div 2 /\ Len(mds.ifft_twiddles) = n \div 2
           /\ Len(layers) = 2 * log_n
           /\ \A k \in 1..log_n :
                /\ layers[k].net = "bowers_g_t" /\ layers[k].h = log_n - k
                /\ layers[log_n + k].net = "bowers_g" /\ layers[log_n + k].h = k - 1
           /\ \A k \in 1..Len(layers) : LayerCovers(n, layers[k])

C10_Witness ==
    /\ Built /\ n = 8 /\ Len(layers) = 6
    /\ \E m \in 1..4 : layers[4].butterflies[m].block = 3 /\ layers[4].butterflies[m].kind = "dif"

-----------------------------------------------------------------------------
\* Linearity

\* C4: the image of a * x + b * y is a times the image of x plus b times the
\* image of y, for the diagonal diffusion of either width and for the coset
\* MDS permutation; the image of the zero state is the zero state.
C4_Linearity ==
    (lin # <<>> /\ lin.done) =>
        /\ lin.fz = (IF lin.f = "coset_mds"
                     THEN FCombine(lin.a, lin.fx, lin.b, lin.fy)
                     ELSE KoalaBearCombine(lin.a, lin.fx, lin.b, lin.fy))
        /\ (lin.a = 0 /\ lin.b = 0) =>
             (lin.z = [i \in 1..lin.n |-> 0] /\ lin.fz = lin.z)

C4_Witness ==
    /\ lin # <<>> /\ lin.done /\ lin.f = "coset_mds" /\ lin.n = 8
    /\ lin.a = (ORDER_U32 - 1) % F_ORDER /\ lin.b = 1
    /\ lin.x # lin.y

====
